---- MODULE Spec2Model ----
(***************************************************************************)
(* A model of the worker pool of src/workers.go (package workers, the      *)
(* WorkerPool with the closing counter, lines 1-210).                      *)
(*                                                                         *)
(* Every goroutine is a process: the workers spawned by createWorkers and  *)
(* the callers of the pool's methods.  One action is one access to shared  *)
(* state (a counter under its mutex, an unsynchronised read of w.size, a   *)
(* channel operation); statements that touch nothing shared are folded     *)
(* into the access before them.  A send on an unbuffered channel is a      *)
(* rendezvous: one action moves the sender and the receiving worker.       *)
(***************************************************************************)
EXTENDS Integers, Sequences, FiniteSets, TLC

\* Bounds of the model.
MaxSize == 2
MaxBuf == 1
NumCallers == 3
MaxCalls == 2

\* The goroutines that call the pool's methods.  Ctl makes up to MaxCalls calls,
\* one after the other; every other caller is a goroutine that makes one call
\* (go pool.Run(...), as the tests start them).
Callers == 1 .. NumCallers
Ctl == CHOOSE c \in Callers : \A d \in Callers : c <= d
Quota(c) == IF c = Ctl THEN MaxCalls ELSE 1
\* The item of the k-th call of caller c, should that call be a Run.
ItemIds == 1 .. (NumCallers * MaxCalls)
ItemOf(c, k) == (c - 1) * MaxCalls + k
\* newSize arguments: one negative value, and everything up to MaxSize.
SizeArgs == (0 - 1) .. MaxSize

VARIABLES
    size,        \* w.size
    busy,        \* w.busy
    closing,     \* w.closing
    jobs,        \* the buffer of w.jobs: a sequence of items
    jobsCap,     \* cap(w.jobs)
    jobsClosed,  \* close(w.jobs) has happened
    stopClosed,  \* close(w.stop) has happened
    workers,     \* the goroutines createWorkers has spawned, in spawn order
    call,        \* per caller: the method call it is in
    calls,       \* per caller: how many calls it has made
    items        \* per item handed to Run: what became of it

vars == <<size, busy, closing, jobs, jobsCap, jobsClosed, stopClosed,
          workers, call, calls, items>>

----------------------------------------------------------------------------
\* Workers

\* A goroutine as createWorkers starts it: at the select, holding no job.
NewWorker == [pc |-> "select", job |-> 0]

WorkerIds == 1 .. Len(workers)

\* The workers parked at the select.  They are interchangeable (same code, no
\* job, no identity the pool keeps), so a channel operation that any of them
\* may take is given to the first.
Idle == {w \in WorkerIds : workers[w].pc = "select"}
Takes(w) == w \in Idle /\ \A v \in Idle : w <= v

\* A worker is alive while it is in its for loop.
Alive(w) == workers[w].pc \in {"select", "incBusy", "run"}

AliveSet == {w \in WorkerIds : Alive(w)}

\* The workers that left the loop through case <-w.stop.
StopExits == {w \in WorkerIds : workers[w].pc = "return_stop"}

\* The workers that left the loop because w.jobs was closed and empty.
ClosedExits == {w \in WorkerIds : workers[w].pc = "return_closed"}

\* Mutant: the spawn loop runs once too often (i <= count).
Spawned_oneMore(count) == [k \in 1 .. (count + 1) |-> NewWorker]

\* for i := 0; i < count; i++ { go func() {...}() }: the goroutines of one
\* createWorkers(count), none when count <= 0.
Spawned(count) == [k \in 1 .. count |-> NewWorker]

\* createWorkers(count) adds them to the workers there are.
createWorkers(count) == workers \o Spawned(count)

----------------------------------------------------------------------------
\* Construction

\* Mutant: the size field is left at its zero value.
NewBufferedPool_sizeUnset(sz, bufSize) ==
    /\ sz >= 0
    /\ size = 0
    /\ busy = 0
    /\ closing = 0
    /\ jobs = << >>
    /\ jobsCap = bufSize
    /\ jobsClosed = FALSE
    /\ stopClosed = FALSE
    /\ workers = Spawned(sz)

\* NewBufferedPool(size, bufSize, run), which panics when size < 0; NewPool is
\* the case bufSize = 0.
NewBufferedPool(sz, bufSize) ==
    /\ sz >= 0
    /\ size = sz
    /\ busy = 0
    /\ closing = 0
    /\ jobs = << >>
    /\ jobsCap = bufSize
    /\ jobsClosed = FALSE
    /\ stopClosed = FALSE
    /\ workers = Spawned(sz)

NewPool(sz) == NewBufferedPool(sz, 0)

\* A caller that is in no call.
NoCall ==
    [op |-> "none", pc |-> "idle", n |-> 0, delta |-> 0, i |-> 0, ret |-> "none",
     size0 |-> 0, spawned0 |-> 0, live0 |-> FALSE, took |-> {}, item |-> 0, val |-> 0]

\* An item no Run has been called with.
NoItem == [st |-> "none", handled |-> 0, late |-> FALSE, atStop |-> FALSE]

InitCallers ==
    /\ call = [c \in Callers |-> NoCall]
    /\ calls = [c \in Callers |-> 0]
    /\ items = [k \in ItemIds |-> NoItem]

Init ==
    /\ \E sz \in 0 .. MaxSize : \E bufSize \in 0 .. MaxBuf : NewBufferedPool(sz, bufSize)
    /\ InitCallers

----------------------------------------------------------------------------
\* Calls.  A call starts with its first access to the pool's state: until then
\* the pool cannot tell a caller that has entered the method from one that has
\* not.  Run is the exception: a caller stays blocked in its send.

\* A caller may start a call when it is in none and has calls left to make.
CanCall(c) == call[c].pc \in {"idle", "done"} /\ calls[c] < Quota(c)

\* The record of a scale call that starts now: its argument, and the state the
\* call found (read by the properties, never by the pool).
Begin(op, n) ==
    [NoCall EXCEPT !.op = op, !.n = n, !.size0 = size, !.spawned0 = Len(workers),
                   !.live0 = ~jobsClosed /\ ~stopClosed]

\* Call record r when its call returns ret: the locals are gone.
Returned(r, ret) == [r EXCEPT !.pc = "done", !.ret = ret, !.delta = 0, !.i = 0]

\* Call record r when its call panics: the goroutine unwinds and makes no
\* further call.  The other goroutines go on, as they do when the caller
\* recovers; a program that dies of the panic has a prefix of such a behaviour.
Panicked(r) == [r EXCEPT !.pc = "panicked", !.ret = "panic", !.delta = 0, !.i = 0]

Goto(r, pc) == [r EXCEPT !.pc = pc]

At(c, pc) == call[c].pc = pc

\* Caller c starts a call whose first step leaves the record r.
Starts(c, r) ==
    /\ CanCall(c)
    /\ call' = [call EXCEPT ![c] = r]
    /\ calls' = [calls EXCEPT ![c] = @ + 1]

\* Caller c, at pc, takes a step that leaves the record r.
Steps(c, pc, r) ==
    /\ At(c, pc)
    /\ call' = [call EXCEPT ![c] = r]
    /\ UNCHANGED calls

----------------------------------------------------------------------------
\* ScaleUp (lines 93-105)

\* if newSize <= w.size: the size ScaleUp refuses.
ScaleUpRejects(n, sz) == n <= sz

\* if newSize <= w.size { return errors.New(...) }
ScaleUp_entry(r) ==
    IF ScaleUpRejects(r.n, size) THEN Returned(r, "err") ELSE Goto(r, "su_lock")

CallScaleUp(c, n) ==
    /\ Starts(c, ScaleUp_entry(Begin("ScaleUp", n)))
    /\ UNCHANGED <<size, busy, closing, jobs, jobsCap, jobsClosed, stopClosed, workers, items>>

\* The same test in a ScaleUp that ScaleTo has called.
ScaleUp_check(c) ==
    /\ Steps(c, "su_check", ScaleUp_entry(call[c]))
    /\ UNCHANGED <<size, busy, closing, jobs, jobsCap, jobsClosed, stopClosed, workers, items>>

\* Mutant: delta computed after w.size = newSize has been assigned.
ScaleUpDelta_afterAssign(n, sz) == n - n

\* delta := newSize - w.size
ScaleUpDelta(n, sz) == n - sz

\* Mutant: ScaleDown keeps sizeMutex until it returns, so ScaleUp waits for it.
ScaleUp_lock_afterShrink(c) ==
    /\ \A d \in Callers : call[d].pc \notin {"sd_modClose", "sd_send", "sd_dec"}
    /\ Steps(c, "su_lock", [call[c] EXCEPT !.pc = "su_create",
                                           !.delta = ScaleUpDelta(call[c].n, size)])
    /\ size' = call[c].n
    /\ UNCHANGED <<busy, closing, jobs, jobsCap, jobsClosed, stopClosed, workers, items>>

\* Under sizeMutex: delta := newSize - w.size; w.size = newSize
ScaleUp_lock(c) ==
    /\ Steps(c, "su_lock", [call[c] EXCEPT !.pc = "su_create",
                                           !.delta = ScaleUpDelta(call[c].n, size)])
    /\ size' = call[c].n
    /\ UNCHANGED <<busy, closing, jobs, jobsCap, jobsClosed, stopClosed, workers, items>>

\* w.createWorkers(delta); return nil
ScaleUp_create(c) ==
    /\ Steps(c, "su_create", Returned(call[c], "nil"))
    /\ workers' = createWorkers(call[c].delta)
    /\ UNCHANGED <<size, busy, closing, jobs, jobsCap, jobsClosed, stopClosed, items>>

----------------------------------------------------------------------------
\* ScaleDown (lines 111-127)

\* Mutant: newSize > w.size in place of newSize >= w.size.
ScaleDownRejects_gt(n, sz) == n < 0 \/ n > sz

\* if newSize < 0 || newSize >= w.size: the size ScaleDown refuses.
ScaleDownRejects(n, sz) == n < 0 \/ n >= sz

\* Where ScaleDown's return leads: StopAndCount drops the result and goes on to
\* close the channels (lines 141-143); every other caller gets the result.
ScaleDownReturns(r, ret) ==
    IF r.op = "StopAndCount" THEN [r EXCEPT !.pc = "close_jobs", !.delta = 0, !.i = 0]
    ELSE Returned(r, ret)

\* if newSize < 0 || newSize >= w.size { return errors.New(...) }
ScaleDown_entry(r) ==
    IF ScaleDownRejects(r.n, size) THEN ScaleDownReturns(r, "err") ELSE Goto(r, "sd_lock")

CallScaleDown(c, n) ==
    /\ Starts(c, ScaleDown_entry(Begin("ScaleDown", n)))
    /\ UNCHANGED <<size, busy, closing, jobs, jobsCap, jobsClosed, stopClosed, workers, items>>

\* The same test in a ScaleDown that ScaleTo has called.
ScaleDown_check(c) ==
    /\ Steps(c, "sd_check", ScaleDown_entry(call[c]))
    /\ UNCHANGED <<size, busy, closing, jobs, jobsCap, jobsClosed, stopClosed, workers, items>>

\* delta := w.size - newSize
ScaleDownDelta(n, sz) == sz - n

\* Under sizeMutex: delta := w.size - newSize; w.size = newSize
ScaleDown_lock(c) ==
    /\ Steps(c, "sd_lock", [call[c] EXCEPT !.pc = "sd_modClose",
                                           !.delta = ScaleDownDelta(call[c].n, size)])
    /\ size' = call[c].n
    /\ UNCHANGED <<busy, closing, jobs, jobsCap, jobsClosed, stopClosed, workers, items>>

\* Mutant: the loop stops one signal short (i < delta - 1).
ScaleDown_loop_short(r, i) ==
    IF i < r.delta - 1 THEN [r EXCEPT !.pc = "sd_send", !.i = i]
    ELSE ScaleDownReturns(r, "nil")

\* for i := 0; i < delta; i++: the loop test with i, and the return nil after
\* the loop.
ScaleDown_loop(r, i) ==
    IF i < r.delta THEN [r EXCEPT !.pc = "sd_send", !.i = i]
    ELSE ScaleDownReturns(r, "nil")

\* Mutant: w.closing = change in place of w.closing += change.
modClose_assign(change) == closing' = change

\* w.modClose(change): w.closing += change, under closingMutex
modClose(change) == closing' = closing + change

\* w.modClose(delta), then the first loop test
ScaleDown_modClose(c) ==
    /\ Steps(c, "sd_modClose", ScaleDown_loop(call[c], 0))
    /\ modClose(call[c].delta)
    /\ UNCHANGED <<size, busy, jobs, jobsCap, jobsClosed, stopClosed, workers, items>>

\* Mutant: the stop signal reaches a worker wherever it is, also inside the
\* handler.
ScaleDown_send_midJob(c, w) ==
    /\ Steps(c, "sd_send", [call[c] EXCEPT !.pc = "sd_dec", !.took = @ \cup {w}])
    /\ ~stopClosed
    /\ w \in AliveSet
    /\ workers' = [workers EXCEPT ![w].pc = "return_stop"]
    /\ UNCHANGED <<size, busy, closing, jobs, jobsCap, jobsClosed, stopClosed, items>>

\* w.stop <- struct{}{} meets case <-w.stop of a parked worker, which returns.
ScaleDown_send(c, w) ==
    /\ Steps(c, "sd_send", [call[c] EXCEPT !.pc = "sd_dec", !.took = @ \cup {w}])
    /\ ~stopClosed
    /\ Takes(w)
    /\ workers' = [workers EXCEPT ![w].pc = "return_stop"]
    /\ UNCHANGED <<size, busy, closing, jobs, jobsCap, jobsClosed, stopClosed, items>>

\* w.stop <- struct{}{} on the closed channel panics.
ScaleDown_sendClosed(c) ==
    /\ Steps(c, "sd_send", Panicked(call[c]))
    /\ stopClosed
    /\ UNCHANGED <<size, busy, closing, jobs, jobsCap, jobsClosed, stopClosed, workers, items>>

\* w.modClose(-1); i++, then the loop test
ScaleDown_dec(c) ==
    /\ Steps(c, "sd_dec", ScaleDown_loop(call[c], call[c].i + 1))
    /\ modClose(0 - 1)
    /\ UNCHANGED <<size, busy, jobs, jobsCap, jobsClosed, stopClosed, workers, items>>

----------------------------------------------------------------------------
\* ScaleTo (lines 80-88)

\* Mutant: the comparison of the first test reversed.
ScaleTo_entry_reversed(r) == IF r.n > size THEN Goto(r, "sd_check") ELSE Goto(r, "st_gt")

\* if newSize < w.size { return w.ScaleDown(newSize) }
ScaleTo_entry(r) == IF r.n < size THEN Goto(r, "sd_check") ELSE Goto(r, "st_gt")

CallScaleTo(c, n) ==
    /\ Starts(c, ScaleTo_entry(Begin("ScaleTo", n)))
    /\ UNCHANGED <<size, busy, closing, jobs, jobsCap, jobsClosed, stopClosed, workers, items>>

\* if newSize > w.size { return w.ScaleUp(newSize) }; return errors.New(...)
ScaleTo_second(r) == IF r.n > size THEN Goto(r, "su_check") ELSE Returned(r, "err")

\* Mutant: w.size = newSize is assigned ahead of the second test.
ScaleTo_gt_assignsFirst(c) ==
    /\ Steps(c, "st_gt", ScaleTo_second(call[c]))
    /\ size' = call[c].n
    /\ UNCHANGED <<busy, closing, jobs, jobsCap, jobsClosed, stopClosed, workers, items>>

ScaleTo_gt(c) ==
    /\ Steps(c, "st_gt", ScaleTo_second(call[c]))
    /\ UNCHANGED <<size, busy, closing, jobs, jobsCap, jobsClosed, stopClosed, workers, items>>

----------------------------------------------------------------------------
\* Stop (lines 130-133) and StopAndCount (lines 140-144)

\* The items in the buffer of w.jobs.
Queued == {jobs[k] : k \in 1 .. Len(jobs)}

\* close(w.jobs) by call r, which panics on a closed channel.
CloseJobs(c, r) ==
    IF jobsClosed
      THEN call' = [call EXCEPT ![c] = Panicked(r)] /\ UNCHANGED jobsClosed
      ELSE call' = [call EXCEPT ![c] = Goto(r, "close_stop")] /\ jobsClosed' = TRUE

\* Stop(): close(w.jobs)
CallStop(c) ==
    /\ CanCall(c)
    /\ calls' = [calls EXCEPT ![c] = @ + 1]
    /\ CloseJobs(c, [NoCall EXCEPT !.op = "Stop"])
    /\ UNCHANGED <<size, busy, closing, jobs, jobsCap, stopClosed, workers, items>>

\* StopAndCount(): _ = w.ScaleDown(0)
CallStopAndCount(c) ==
    /\ Starts(c, ScaleDown_entry(Begin("StopAndCount", 0)))
    /\ UNCHANGED <<size, busy, closing, jobs, jobsCap, jobsClosed, stopClosed, workers, items>>

\* StopAndCount(): close(w.jobs)
StopAndCount_closeJobs(c) ==
    /\ At(c, "close_jobs")
    /\ CloseJobs(c, call[c])
    /\ UNCHANGED <<size, busy, closing, jobs, jobsCap, stopClosed, workers, calls, items>>

\* The items with the mark that they sat in the buffer of w.jobs when Stop
\* returned (read by the properties, never by the pool).
LeftAtStop(r) ==
    [k \in ItemIds |->
        IF r.op = "Stop" /\ k \in Queued THEN [items[k] EXCEPT !.atStop = TRUE]
        ELSE items[k]]

\* close(w.stop), which panics on a closed channel, and the return
CloseStop(c) ==
    /\ At(c, "close_stop")
    /\ IF stopClosed
         THEN /\ call' = [call EXCEPT ![c] = Panicked(call[c])]
              /\ UNCHANGED <<stopClosed, items>>
         ELSE /\ call' = [call EXCEPT ![c] = Returned(call[c], "nil")]
              /\ stopClosed' = TRUE
              /\ items' = LeftAtStop(call[c])
    /\ UNCHANGED <<size, busy, closing, jobs, jobsCap, jobsClosed, workers, calls>>

----------------------------------------------------------------------------
\* Run (lines 75-77)

\* What is known of an item when Run is called with it: late says that a Stop
\* or StopAndCount had returned by then (CloseStop is their last step).
NewItem == [NoItem EXCEPT !.st = "sending", !.late = stopClosed]

\* Run(data) is called: the caller is at w.jobs <- data.
StartRun(c) ==
    /\ Starts(c, [NoCall EXCEPT !.op = "Run", !.pc = "run_send",
                                !.item = ItemOf(c, calls[c] + 1)])
    /\ items' = [items EXCEPT ![ItemOf(c, calls[c] + 1)] = NewItem]
    /\ UNCHANGED <<size, busy, closing, jobs, jobsCap, jobsClosed, stopClosed, workers>>

\* Mutant: Stop leaves w.jobs open to senders.
SendAllowed_always == TRUE

\* A send on w.jobs can complete only while the channel is open.
SendAllowed == ~jobsClosed

\* Mutant: a send that does not wait for a free slot (select with a default
\* case) and returns with the item dropped.
Run_buffer_nonBlocking(c) ==
    /\ Steps(c, "run_send", Returned(call[c], "nil"))
    /\ SendAllowed
    /\ jobsCap > 0
    /\ jobs' = IF Len(jobs) < jobsCap THEN Append(jobs, call[c].item) ELSE jobs
    /\ items' = [items EXCEPT ![call[c].item].st = "accepted"]
    /\ UNCHANGED <<size, busy, closing, jobsCap, jobsClosed, stopClosed, workers>>

\* w.jobs <- data into a free slot of the buffer
Run_buffer(c) ==
    /\ Steps(c, "run_send", Returned(call[c], "nil"))
    /\ SendAllowed
    /\ Len(jobs) < jobsCap
    /\ jobs' = Append(jobs, call[c].item)
    /\ items' = [items EXCEPT ![call[c].item].st = "accepted"]
    /\ UNCHANGED <<size, busy, closing, jobsCap, jobsClosed, stopClosed, workers>>

\* w.jobs <- data on the unbuffered channel meets case job, ok := <-w.jobs of a
\* parked worker.
Run_handoff(c, w) ==
    /\ Steps(c, "run_send", Returned(call[c], "nil"))
    /\ SendAllowed
    /\ jobsCap = 0
    /\ Takes(w)
    /\ workers' = [workers EXCEPT ![w] = [pc |-> "incBusy", job |-> call[c].item]]
    /\ items' = [items EXCEPT ![call[c].item].st = "accepted"]
    /\ UNCHANGED <<size, busy, closing, jobs, jobsCap, jobsClosed, stopClosed>>

\* w.jobs <- data on the closed channel panics, also for a sender that was
\* blocked when the channel was closed.
Run_closed(c) ==
    /\ Steps(c, "run_send", Panicked(call[c]))
    /\ jobsClosed
    /\ items' = [items EXCEPT ![call[c].item].st = "panic"]
    /\ UNCHANGED <<size, busy, closing, jobs, jobsCap, jobsClosed, stopClosed, workers>>

----------------------------------------------------------------------------
\* The introspection methods (lines 147-172)

Size == size
Busy == busy
Excess == closing

\* Waiting(): the left operand of w.Size() - w.Busy(), kept in n
CallWaiting(c) ==
    /\ Starts(c, [NoCall EXCEPT !.op = "Waiting", !.pc = "w_busy", !.n = Size])
    /\ UNCHANGED <<size, busy, closing, jobs, jobsCap, jobsClosed, stopClosed, workers, items>>

\* Waiting(): the right operand, the subtraction and the return of the value
Waiting_busy(c) ==
    /\ Steps(c, "w_busy", [Returned(call[c], "nil") EXCEPT !.val = call[c].n - Busy])
    /\ UNCHANGED <<size, busy, closing, jobs, jobsCap, jobsClosed, stopClosed, workers, items>>

----------------------------------------------------------------------------
\* The worker loop (createWorkers, lines 176-190)

\* case job, ok := <-w.jobs with ok: a buffered item is received, from an open
\* or a closed channel alike.
Recv_job(w) ==
    /\ Takes(w)
    /\ jobs # << >>
    /\ workers' = [workers EXCEPT ![w] = [pc |-> "incBusy", job |-> Head(jobs)]]
    /\ jobs' = Tail(jobs)
    /\ UNCHANGED <<size, busy, closing, jobsCap, jobsClosed, stopClosed, call, calls, items>>

\* case job, ok := <-w.jobs with !ok: the channel is closed and drained.
Recv_closed(w) ==
    /\ Takes(w)
    /\ jobsClosed
    /\ jobs = << >>
    /\ workers' = [workers EXCEPT ![w].pc = "return_closed"]
    /\ UNCHANGED <<size, busy, closing, jobs, jobsCap, jobsClosed, stopClosed, call, calls, items>>

\* case <-w.stop on the closed stop channel
Recv_stopClosed(w) ==
    /\ Takes(w)
    /\ stopClosed
    /\ workers' = [workers EXCEPT ![w].pc = "return_stop"]
    /\ UNCHANGED <<size, busy, closing, jobs, jobsCap, jobsClosed, stopClosed, call, calls, items>>

\* w.incBusy(), and the call w.run(job...)
IncBusy(w) ==
    /\ w \in WorkerIds
    /\ workers[w].pc = "incBusy"
    /\ busy' = busy + 1
    /\ items' = [items EXCEPT ![workers[w].job].handled = @ + 1]
    /\ workers' = [workers EXCEPT ![w].pc = "run"]
    /\ UNCHANGED <<size, closing, jobs, jobsCap, jobsClosed, stopClosed, call, calls>>

\* Mutant: the handler returns and w.decBusy() is left out.
DecBusy_leftOut(w) ==
    /\ w \in WorkerIds
    /\ workers[w].pc = "run"
    /\ busy' = busy
    /\ workers' = [workers EXCEPT ![w] = NewWorker]
    /\ UNCHANGED <<size, closing, jobs, jobsCap, jobsClosed, stopClosed, call, calls, items>>

\* w.run(job...) returns, and w.decBusy(); back to the select
DecBusy(w) ==
    /\ w \in WorkerIds
    /\ workers[w].pc = "run"
    /\ busy' = busy - 1
    /\ workers' = [workers EXCEPT ![w] = NewWorker]
    /\ UNCHANGED <<size, closing, jobs, jobsCap, jobsClosed, stopClosed, call, calls, items>>

----------------------------------------------------------------------------
\* The steps of the calls in progress and of the workers.

ScaleStep(c) ==
    \/ ScaleTo_gt(c)
    \/ ScaleUp_check(c)
    \/ ScaleUp_lock(c)
    \/ ScaleUp_create(c)
    \/ ScaleDown_check(c)
    \/ ScaleDown_lock(c)
    \/ ScaleDown_modClose(c)
    \/ \E w \in WorkerIds : ScaleDown_send(c, w)
    \/ ScaleDown_sendClosed(c)
    \/ ScaleDown_dec(c)

StopStep(c) ==
    \/ StopAndCount_closeJobs(c)
    \/ CloseStop(c)

RunStep(c) ==
    \/ Run_buffer(c)
    \/ \E w \in WorkerIds : Run_handoff(c, w)
    \/ Run_closed(c)

\* The worker takes a job, or leaves on a closed channel.
WorkerRecv(w) ==
    \/ Recv_job(w)
    \/ Recv_closed(w)
    \/ Recv_stopClosed(w)

CallScale(c) ==
    \E n \in SizeArgs :
        \/ CallScaleTo(c, n)
        \/ CallScaleUp(c, n)
        \/ CallScaleDown(c, n)

\* The pool in use: Ctl scales, stops, submits and observes, one call after the
\* other, while the other callers submit and observe.
Next ==
    \/ CallScale(Ctl)
    \/ CallStop(Ctl)
    \/ CallStopAndCount(Ctl)
    \/ \E c \in Callers : StartRun(c)
    \/ \E c \in Callers : CallWaiting(c)
    \/ \E c \in Callers : ScaleStep(c)
    \/ \E c \in Callers : StopStep(c)
    \/ \E c \in Callers : RunStep(c)
    \/ \E c \in Callers : Waiting_busy(c)
    \/ \E w \in WorkerIds : WorkerRecv(w)
    \/ \E w \in WorkerIds : IncBusy(w)
    \/ \E w \in WorkerIds : DecBusy(w)

Spec == Init /\ [][Next]_vars

----------------------------------------------------------------------------
\* Properties of the scale calls.  Under Spec the scale and stop calls come from
\* Ctl alone, one after the other, so no scale call runs beside another; the
\* submitters and the workers run beside them.

\* Caller c is back from a call of op; its record is kept until its next call.
Back(c, op) == call[c].op = op /\ call[c].pc = "done"

\* The workers the call of c has spawned.
SpawnedBy(c) == (call[c].spawned0 + 1) .. Len(workers)

\* What a shrink from size0 to n leaves when it returns nil: one stop signal
\* taken per worker to remove, each by another worker that has left its loop,
\* n workers alive, the size n and no pending shutdown.
ShrinkDone(c) ==
    /\ call[c].ret = "nil"
    /\ Cardinality(call[c].took) = call[c].size0 - call[c].n
    /\ \A w \in call[c].took : workers[w].pc = "return_stop"
    /\ Cardinality(AliveSet) = call[c].n
    /\ Len(workers) = call[c].spawned0
    /\ Size = call[c].n
    /\ Excess = 0

\* What a growth from size0 to n leaves when it returns nil: the size n and
\* n - size0 new workers, in their loop when the pool has not been stopped.
GrowthDone(c) ==
    /\ call[c].ret = "nil"
    /\ Size = call[c].n
    /\ Len(workers) - call[c].spawned0 = call[c].n - call[c].size0
    /\ call[c].live0 => \A w \in SpawnedBy(c) : Alive(w)
    /\ call[c].took = {}

\* What a refused scale call leaves: the error, and the pool as it was.
Refused(c) ==
    /\ call[c].ret = "err"
    /\ Size = call[c].size0
    /\ Len(workers) = call[c].spawned0
    /\ call[c].took = {}

\* C1: when ScaleDown(n) returns nil, with no other scale call beside it,
\* exactly oldSize - n workers have each taken one stop signal and left their
\* loop, n workers remain alive and Excess() is 0.
C1_ScaleDownBlocksUntilShrunk ==
    \A c \in Callers : Back(c, "ScaleDown") /\ call[c].ret = "nil" => ShrinkDone(c)

C1_Witness ==
    /\ Back(Ctl, "ScaleDown")
    /\ call[Ctl].ret = "nil"
    /\ call[Ctl].size0 - call[Ctl].n = 2
    /\ \E k \in ItemIds : items[k].handled = 1

\* C2: ScaleDown(n) returns an error whenever n < 0 or n >= the size it finds,
\* and whenever 0 <= n < size it returns nil and Size() is n afterwards.
C2_ScaleDownResult ==
    \A c \in Callers : Back(c, "ScaleDown") =>
        /\ call[c].ret \in {"nil", "err"}
        /\ call[c].ret = "err" <=> (call[c].n < 0 \/ call[c].n >= call[c].size0)
        /\ call[c].ret = "err" => Refused(c)
        /\ call[c].ret = "nil" => Size = call[c].n

C2_Witness ==
    /\ Back(Ctl, "ScaleDown")
    /\ call[Ctl].ret = "nil"
    /\ call[Ctl].n = 0
    /\ call[Ctl].size0 = MaxSize
    /\ AliveSet = {}

\* C3: ScaleUp(n) returns an error whenever n <= the size it finds, and whenever
\* n > size it returns nil, Size() is n afterwards and exactly n - oldSize
\* workers have been spawned, each in the worker loop.
C3_ScaleUpResult ==
    \A c \in Callers : Back(c, "ScaleUp") =>
        /\ call[c].ret \in {"nil", "err"}
        /\ call[c].ret = "err" <=> call[c].n <= call[c].size0
        /\ call[c].ret = "err" => Refused(c)
        /\ call[c].ret = "nil" => GrowthDone(c)

C3_Witness ==
    /\ Back(Ctl, "ScaleUp")
    /\ call[Ctl].ret = "nil"
    /\ call[Ctl].live0
    /\ call[Ctl].n - call[Ctl].size0 = 2
    /\ SpawnedBy(Ctl) \subseteq AliveSet

\* C4 as stated: ScaleTo(n) returns an error exactly when n equals the size it
\* finds.
C4_ErrorExactlyWhenEqual ==
    \A c \in Callers : Back(c, "ScaleTo") =>
        (call[c].ret = "err" <=> call[c].n = call[c].size0)

\* C4, amended: ScaleTo(n) returns an error exactly when n equals the size it
\* finds or n < 0; for n above the size it returns what ScaleUp(n) returns and
\* leaves what ScaleUp(n) leaves, for n below the size what ScaleDown(n) does.
C4_ScaleToAsDirectional ==
    \A c \in Callers : Back(c, "ScaleTo") =>
        /\ call[c].ret \in {"nil", "err"}
        /\ call[c].ret = "err" <=> (call[c].n = call[c].size0 \/ call[c].n < 0)
        /\ call[c].ret = "err" => Refused(c)
        /\ call[c].n > call[c].size0 => GrowthDone(c)
        /\ (0 <= call[c].n /\ call[c].n < call[c].size0) => ShrinkDone(c)

C4_Witness ==
    /\ Back(Ctl, "ScaleTo")
    /\ call[Ctl].ret = "nil"
    /\ call[Ctl].n = 1
    /\ call[Ctl].size0 = 2
    /\ busy = 1

\* C5: when StopAndCount() returns, after whatever scale calls came before it,
\* Excess() is 0 and every worker has left its loop through the stop signal of
\* this call or of an earlier shrink.
C5_StopAndCountLeavesNoExcess ==
    \A c \in Callers : Back(c, "StopAndCount") =>
        /\ Excess = 0
        /\ AliveSet = {}
        /\ ClosedExits = {}
        /\ Cardinality(call[c].took) = call[c].size0
        /\ \A w \in WorkerIds : w \in call[c].took \/ w > call[c].spawned0
                                   \/ workers[w].pc = "return_stop"
        /\ Len(workers) = call[c].spawned0

C5_Witness ==
    /\ Back(Ctl, "StopAndCount")
    /\ call[Ctl].size0 = 1
    /\ call[Ctl].spawned0 = 2

----------------------------------------------------------------------------
\* Properties of Waiting, Stop and Run

\* The workers that hold item k: they have received it and not finished it.
Holders(k) == {w \in WorkerIds : workers[w].job = k}

\* C8: every value Waiting() returns lies between 0 and the Size() it has read,
\* also while submissions, completions and scale calls run beside its two
\* reads.
C8_WaitingWithinBounds ==
    \A c \in Callers : Back(c, "Waiting") =>
        0 <= call[c].val /\ call[c].val <= call[c].n

\* C9: no item that still sat in the intake buffer when Stop() returned is
\* passed to the handler.
C9_StopDiscardsQueue ==
    \A k \in ItemIds : items[k].atStop => items[k].handled = 0

\* C10: a Run that starts after Stop() or StopAndCount() has returned is never
\* accepted: its item enters neither the buffer nor a worker and is never
\* handled, and the call can only panic on the closed channel.
C10_RunAfterStopPanics ==
    \A c \in Callers : \A k \in ItemIds :
        items[k].late =>
            /\ items[k].st \in {"sending", "panic"}
            /\ items[k].handled = 0
            /\ k \notin Queued
            /\ Holders(k) = {}
            /\ (call[c].item = k /\ call[c].op = "Run") =>
                   \/ At(c, "run_send") /\ jobsClosed /\ ENABLED Run_closed(c)
                   \/ At(c, "panicked")

C10_Witness ==
    \E k \in ItemIds :
        /\ items[k].late
        /\ items[k].st = "panic"
        /\ jobsCap > 0
        /\ Len(jobs) < jobsCap
        /\ Idle # {}

----------------------------------------------------------------------------
\* The pool that is never stopped, under fair scheduling: a goroutine that can
\* take a step takes one, and every handler invocation returns.  The callers
\* are free to make their calls or not.

LiveStep ==
    \/ \E c \in Callers : ScaleTo_gt(c)
    \/ \E c \in Callers : ScaleUp_check(c)
    \/ \E c \in Callers : ScaleUp_lock(c)
    \/ \E c \in Callers : ScaleUp_create(c)
    \/ \E c \in Callers : ScaleDown_check(c)
    \/ \E c \in Callers : ScaleDown_lock(c)
    \/ \E c \in Callers : ScaleDown_modClose(c)
    \/ \E c \in Callers : \E w \in WorkerIds : ScaleDown_send(c, w)
    \/ \E c \in Callers : ScaleDown_dec(c)
    \/ \E c \in Callers : Run_buffer(c)
    \/ \E c \in Callers : \E w \in WorkerIds : Run_handoff(c, w)
    \/ \E w \in WorkerIds : Recv_job(w)
    \/ \E w \in WorkerIds : IncBusy(w)
    \/ \E w \in WorkerIds : DecBusy(w)

NextLive ==
    \/ CallScale(Ctl)
    \/ \E c \in Callers : StartRun(c)
    \/ LiveStep

LiveSpec == Init /\ [][NextLive]_vars /\ WF_vars(LiveStep)

\* The items Run has returned for.
Accepted == {k \in ItemIds : items[k].st = "accepted"}

\* How often item k occurs in the buffer.
TimesQueued(k) == Cardinality({j \in 1 .. Len(jobs) : jobs[j] = k})

\* An accepted item is in one place: once in the buffer, or with one worker
\* that is about to invoke or has invoked the handler with it, or it has been
\* handled and given up.
InOnePlace(k) ==
    \/ TimesQueued(k) = 1 /\ Holders(k) = {} /\ items[k].handled = 0
    \/ /\ TimesQueued(k) = 0
       /\ \E w \in WorkerIds :
              /\ Holders(k) = {w}
              /\ items[k].handled = (IF workers[w].pc = "run" THEN 1 ELSE 0)
    \/ TimesQueued(k) = 0 /\ Holders(k) = {} /\ items[k].handled = 1

\* C6 as stated: every item for which Run has returned is eventually passed to
\* the handler, exactly once.
C6_AcceptedEventuallyHandled ==
    \A k \in ItemIds : (items[k].st = "accepted") ~> (items[k].handled = 1)

\* C6, amended: an item for which Run has returned is never dropped nor handed
\* over twice; it is eventually handled exactly once, or the pool is left with
\* no live worker while the item waits in the buffer, which cannot happen in an
\* unbuffered pool.
C6_AcceptedNeverDropped ==
    /\ [](\A k \in Accepted : InOnePlace(k))
    /\ [](\A k \in ItemIds : items[k].handled <= 1)
    /\ \A k \in ItemIds :
           (items[k].st = "accepted") ~>
               (items[k].handled = 1 \/ (AliveSet = {} /\ TimesQueued(k) = 1))
    /\ \A k \in ItemIds :
           (items[k].st = "accepted" /\ jobsCap = 0) ~> (items[k].handled = 1)

C6_Witness ==
    \E k \in ItemIds :
        /\ items[k].handled = 1
        /\ Holders(k) = {}
        /\ jobsCap > 0
        /\ Back(Ctl, "ScaleDown")
        /\ call[Ctl].ret = "nil"
        /\ AliveSet # {}

----------------------------------------------------------------------------
\* An unbuffered pool of fixed size whose handler never returns: the callers
\* submit, there is no scale and no stop call, and no invocation ends.  The
\* scheduling is fair.

InitBusy ==
    /\ \E sz \in 0 .. MaxSize : NewPool(sz)
    /\ InitCallers

BusyStep ==
    \/ \E c \in Callers : \E w \in WorkerIds : Run_handoff(c, w)
    \/ \E w \in WorkerIds : IncBusy(w)

NextBusy ==
    \/ \E c \in Callers : StartRun(c)
    \/ BusyStep

BusySpec == InitBusy /\ [][NextBusy]_vars /\ WF_vars(BusyStep)

\* The items Run has been called with, and those whose Run is blocked.
Submitted == {k \in ItemIds : items[k].st # "none"}
Sending == {k \in ItemIds : items[k].st = "sending"}

Min(a, b) == IF a <= b THEN a ELSE b

\* C7: with M items submitted to an unbuffered pool of size K whose handler
\* never returns, Busy() never exceeds K and no more than K items are ever
\* accepted; in the end Busy() is min(M, K) and the other M - min(M, K)
\* submitters are blocked in Run.
C7_BusyCappedAtSize ==
    /\ [](Busy <= Size)
    /\ [](Cardinality(Accepted) <= Size)
    /\ [](\A k \in Sending : Holders(k) = {} /\ items[k].handled = 0)
    /\ <>[](/\ Busy = Min(Cardinality(Submitted), Size)
            /\ Cardinality(Sending) = Cardinality(Submitted) - Busy)

C7_Witness ==
    /\ Size = MaxSize
    /\ Busy = MaxSize
    /\ Cardinality(Submitted) > MaxSize
    /\ Cardinality(Sending) = Cardinality(Submitted) - MaxSize

----------------------------------------------------------------------------
\* Scale calls beside each other: every caller is a goroutine that makes one
\* call, a ScaleTo, ScaleUp or ScaleDown (go pool.ScaleTo(...), as
\* TestWorkerPool_ScaleRandom starts them) or a Run.  The pool is never stopped,
\* the scheduling is fair and every handler invocation returns.

\* The goroutines are interchangeable until they have made their call, so the
\* one that reaches the pool first is given the lowest number: caller c makes
\* its call once every caller below it has made its own.
InTurn(c) == calls[c] = 0 /\ \A d \in Callers : d < c => calls[d] > 0

NextRace ==
    \/ \E c \in Callers : InTurn(c) /\ CallScale(c)
    \/ \E c \in Callers : InTurn(c) /\ StartRun(c)
    \/ LiveStep

RaceSpec == Init /\ [][NextRace]_vars /\ WF_vars(LiveStep)

\* ScaleTo calls alone, each from its own goroutine, on a pool nothing is
\* submitted to, so that every worker stays at the select: the calls of
\* TestWorkerPool_ScaleRandom.  The ScaleUp and ScaleDown steps are those of the
\* calls ScaleTo makes.
ScaleRaceStep ==
    \/ \E c \in Callers : ScaleTo_gt(c)
    \/ \E c \in Callers : ScaleUp_check(c)
    \/ \E c \in Callers : ScaleUp_lock(c)
    \/ \E c \in Callers : ScaleUp_create(c)
    \/ \E c \in Callers : ScaleDown_check(c)
    \/ \E c \in Callers : ScaleDown_lock(c)
    \/ \E c \in Callers : ScaleDown_modClose(c)
    \/ \E c \in Callers : \E w \in WorkerIds : ScaleDown_send(c, w)
    \/ \E c \in Callers : ScaleDown_dec(c)

NextScaleRace ==
    \/ \E c \in Callers : \E n \in SizeArgs : InTurn(c) /\ CallScaleTo(c, n)
    \/ ScaleRaceStep

ScaleRaceSpec == Init /\ [][NextScaleRace]_vars /\ WF_vars(ScaleRaceStep)

\* The caller that makes its call after every other caller has made its own.
Last == CHOOSE c \in Callers : \A d \in Callers : d <= c

\* Every caller has made a ScaleTo call and is back from it, the targets all
\* sizes a pool can have and all different.
AllScaleToSettled ==
    /\ \A c \in Callers : Back(c, "ScaleTo") /\ call[c].n >= 0
    /\ \A c, d \in Callers : c # d => call[c].n # call[d].n

\* C11: when ScaleTo calls with different targets run beside each other on idle
\* workers and a last ScaleTo(n) is issued once all the others have started,
\* Size() is n once every call has returned.
C11_LastScaleToWins == AllScaleToSettled => Size = call[Last].n

\* Caller c is inside ScaleUp, called directly or by ScaleTo.
InScaleUp(c) == call[c].pc \in {"su_check", "su_lock", "su_create"}

\* The steps ScaleUp has left to take from pc.
StepsLeft(pc) ==
    IF pc = "su_check" THEN 3 ELSE IF pc = "su_lock" THEN 2 ELSE IF pc = "su_create" THEN 1 ELSE 0

\* The next step of the ScaleUp of caller c can be taken now.
ScaleUpCanStep(c) ==
    /\ At(c, "su_check") => ENABLED ScaleUp_check(c)
    /\ At(c, "su_lock") => ENABLED ScaleUp_lock(c)
    /\ At(c, "su_create") => ENABLED ScaleUp_create(c)

\* A shrink that waits at w.stop <- struct{}{} with no worker at the select.
ShrinkBlocked(d) == At(d, "sd_send") /\ Idle = {}

\* C12: a ScaleUp never waits: whatever the other goroutines do (handlers
\* running, a ScaleDown waiting for a worker to take its stop signal), its next
\* step can be taken, and every step brings it closer to its return, which
\* comes after at most three steps of its own.
C12_ScaleUpNeverBlocks ==
    /\ [](\A c \in Callers : ScaleUpCanStep(c))
    /\ [][\A c \in Callers :
             (InScaleUp(c) /\ call'[c] # call[c]) =>
                 StepsLeft(call'[c].pc) < StepsLeft(call[c].pc)]_vars

C12_Witness ==
    \E c, d \in Callers :
        /\ At(c, "su_lock")
        /\ ShrinkBlocked(d)
        /\ busy > 0
        /\ Cardinality(AliveSet) = busy

----------------------------------------------------------------------------
\* Construction, under Spec

\* The pool as the constructor returned it: no call has been made on it.
Fresh == \A c \in Callers : calls[c] = 0

\* C13: the pool NewPool/NewBufferedPool returns for a size >= 0 has that Size(),
\* Busy() and Excess() 0, open channels, an empty buffer and exactly Size()
\* workers, each at the select; a ScaleUp on a pool constructed with size 0
\* succeeds and spawns its workers.
C13_ConstructorPostconditions ==
    /\ Fresh =>
           /\ Size >= 0
           /\ Busy = 0
           /\ Excess = 0
           /\ Len(workers) = Size
           /\ \A w \in WorkerIds : workers[w] = NewWorker
           /\ jobs = << >> /\ jobsCap >= 0
           /\ ~jobsClosed /\ ~stopClosed
    /\ \A c \in Callers :
           (Back(c, "ScaleUp") /\ call[c].size0 = 0 /\ call[c].spawned0 = 0
                /\ call[c].n > 0 /\ call[c].live0) =>
               /\ GrowthDone(c)
               /\ Len(workers) = call[c].n

C13_Witness ==
    /\ calls[Ctl] = 1
    /\ Back(Ctl, "ScaleUp")
    /\ call[Ctl].size0 = 0
    /\ call[Ctl].spawned0 = 0
    /\ call[Ctl].n = MaxSize
    /\ Cardinality(AliveSet) = MaxSize
    /\ jobsCap = MaxBuf

----------------------------------------------------------------------------
\* Properties of scale calls that run beside each other, under RaceSpec

\* Caller c is inside a scale call: it has started and has not returned.
Scaling(c) ==
    /\ call[c].op \in {"ScaleTo", "ScaleUp", "ScaleDown", "StopAndCount"}
    /\ call[c].pc # "done"

\* C14: once every scale call has returned, whatever their interleaving, the
\* number of live workers is Size().
C14_WorkersMatchSize ==
    (\A c \in Callers : ~Scaling(c)) => Cardinality(AliveSet) = Size

\* Caller c is inside ScaleDown, called directly, by ScaleTo or by StopAndCount.
InScaleDown(c) ==
    call[c].pc \in {"sd_check", "sd_lock", "sd_modClose", "sd_send", "sd_dec"}

\* C15: Excess() is never negative, and it is 0 whenever no ScaleDown is in
\* progress, whatever the interleaving of the scale calls.
C15_ExcessNeverNegative ==
    /\ Excess >= 0
    /\ (\A c \in Callers : ~InScaleDown(c)) => Excess = 0

\* Caller c is inside a ScaleDown that has passed its check.
Shrinking(c) == call[c].pc \in {"sd_lock", "sd_modClose", "sd_send", "sd_dec"}

\* C18: every ScaleDown that has passed its check returns in the end, whatever
\* the other scale calls beside it do, the pool not being stopped, the
\* scheduling fair and every handler invocation returning.
C18_ShrinkReturns ==
    \A c \in Callers : Shrinking(c) ~> (call[c].pc = "done")

\* The positions of a scale call at which it has only read w.size: inside
\* ScaleTo after its first test, and at the check of ScaleUp and of ScaleDown.
OnlyRead == {"st_gt", "su_check", "sd_check"}

\* Caller c takes the step that returns an error.
ReturnsErr(c) == call[c].ret # "err" /\ call'[c].ret = "err"

\* Caller c takes a step and is at a position where it has only read w.size,
\* or has returned an error.
ReadStep(c) ==
    /\ call'[c] # call[c]
    /\ call'[c].pc \in OnlyRead \/ ReturnsErr(c)

\* C20: a scale call that returns an error has changed nothing.  The error is
\* returned by a test of w.size, reached through tests of w.size alone, and
\* each of these steps leaves size, busy count, pending-shutdown count,
\* channels and workers as they are: no worker spawned, no stop signal sent.
C20_RefusedCallChangesNothing ==
    /\ [][\A c \in Callers :
             ReturnsErr(c) => call[c].pc \in OnlyRead \cup {"idle", "done"}]_vars
    /\ [][\A c \in Callers :
             (call'[c].pc \in OnlyRead /\ call'[c] # call[c]) =>
                 call[c].pc \in {"st_gt", "idle", "done"}]_vars
    /\ [][\A c \in Callers :
             ReadStep(c) =>
                 UNCHANGED <<size, busy, closing, jobs, jobsCap, jobsClosed,
                             stopClosed, workers>>]_vars
    /\ [](\A c \in Callers : call[c].ret = "err" => call[c].took = {})

C20_Witness ==
    \E c \in Callers :
        /\ Back(c, "ScaleTo")
        /\ call[c].ret = "err"
        /\ call[c].n >= 0
        /\ call[c].n # call[c].size0
        /\ Size # call[c].size0
        /\ Busy > 0

----------------------------------------------------------------------------
\* Properties of the counters and the workers, under Spec

InHandler == {w \in WorkerIds : workers[w].pc = "run"}

\* C17: a worker leaves its loop only from the select, where it holds no job,
\* so a worker that has received an item stays alive until the handler has
\* returned; Busy() is the number of workers inside the handler and never
\* exceeds the number of live workers.
C17_NoInFlightWorkLost ==
    /\ [][\A w \in WorkerIds :
             (Alive(w) /\ workers'[w].pc \in {"return_stop", "return_closed"}) =>
                 workers[w] = NewWorker]_vars
    /\ [](\A w \in WorkerIds : ~Alive(w) => workers[w].job = 0)
    /\ [](\A k \in ItemIds : Holders(k) \subseteq AliveSet)
    /\ [](Busy = Cardinality(InHandler))
    /\ [](Busy <= Cardinality(AliveSet))

C17_Witness ==
    \E c \in Callers :
        /\ ShrinkBlocked(c)
        /\ call[c].took # {}
        /\ InHandler # {}
        /\ Busy = Cardinality(AliveSet)

----------------------------------------------------------------------------
\* The pool that is submitted to and then stopped with Stop(), under fair
\* scheduling, every handler invocation returning.

StopLiveStep ==
    \/ \E c \in Callers : CloseStop(c)
    \/ \E c \in Callers : Run_buffer(c)
    \/ \E c \in Callers : \E w \in WorkerIds : Run_handoff(c, w)
    \/ \E c \in Callers : Run_closed(c)
    \/ \E w \in WorkerIds : Recv_job(w)
    \/ \E w \in WorkerIds : Recv_closed(w)
    \/ \E w \in WorkerIds : Recv_stopClosed(w)
    \/ \E w \in WorkerIds : IncBusy(w)
    \/ \E w \in WorkerIds : DecBusy(w)

NextStop ==
    \/ CallStop(Ctl)
    \/ \E c \in Callers : StartRun(c)
    \/ StopLiveStep

StopSpec == Init /\ [][NextStop]_vars /\ WF_vars(StopLiveStep)

\* Once Stop() has returned, no worker is alive in the end.
AllWorkersExit == stopClosed ~> (AliveSet = {})

\* Once Stop() has returned, the next step of a worker at the select is its
\* exit.
IdleWorkersExitNext ==
    [][\A w \in WorkerIds :
          (stopClosed /\ workers[w].pc = "select" /\ workers'[w] # workers[w]) =>
              workers'[w].pc \in {"return_stop", "return_closed"}]_vars

\* Stop() takes its steps without waiting and leaves w.closing as it is.
StopDoesNotWait ==
    /\ [](\A c \in Callers : At(c, "close_stop") => ENABLED CloseStop(c))
    /\ [][\A c \in Callers :
             (call'[c].op = "Stop" /\ call'[c] # call[c]) => closing' = closing]_vars

\* C19: after Stop() every worker terminates: a worker at the select exits at
\* its next loop iteration, a worker inside the handler once the invocation has
\* returned, so that in the end no worker is alive; Stop() itself does not wait
\* and does not change the pending-shutdown counter.
C19_WorkersExitAfterStop ==
    /\ AllWorkersExit
    /\ IdleWorkersExitNext
    /\ StopDoesNotWait

====
